---- MODULE Spec2Model ----
(***************************************************************************)
(* Bin interval matcher: the interval predicate isValueInInterval          *)
(* (src/utils/intervalParser.ts) and the App component's state and         *)
(* handlers (the three revisions of App.tsx kept in src/unnamed/part_000). *)
(*                                                                         *)
(* Text is modelled as a sequence of one-character strings, so that the    *)
(* regular expression, trim, parseFloat and String() are computed          *)
(* character by character as the code does.  A JavaScript number is a      *)
(* record: a finite decimal num/den (den a power of ten), an infinity, or  *)
(* NaN.  Within the digit bounds used here every decimal is far below 15   *)
(* significant digits, so comparing the exact decimals agrees with         *)
(* comparing the doubles.                                                  *)
(***************************************************************************)
EXTENDS Integers, Sequences, FiniteSets, TLC

(***************************************************************************)
(* Characters and numbers                                                  *)
(***************************************************************************)
Digits == {"0", "1", "2", "3", "4", "5", "6", "7", "8", "9"}

\* the white space characters that occur in the model's texts; trim() and
\* the regular expression's \s accept the same set of characters
WhiteSpace == {" ", "\t"}

DigitVal(c) ==
  CASE c = "0" -> 0 [] c = "1" -> 1 [] c = "2" -> 2 [] c = "3" -> 3
    [] c = "4" -> 4 [] c = "5" -> 5 [] c = "6" -> 6 [] c = "7" -> 7
    [] c = "8" -> 8 [] c = "9" -> 9

DigitChar(d) ==
  CASE d = 0 -> "0" [] d = 1 -> "1" [] d = 2 -> "2" [] d = 3 -> "3"
    [] d = 4 -> "4" [] d = 5 -> "5" [] d = 6 -> "6" [] d = 7 -> "7"
    [] d = 8 -> "8" [] d = 9 -> "9"

RECURSIVE Pow10(_)
Pow10(n) == IF n <= 0 THEN 1 ELSE 10 * Pow10(n - 1)

NaN == [kind |-> "nan"]
PosInf == [kind |-> "inf", sign |-> 1]
NegInf == [kind |-> "inf", sign |-> -1]
Fin(n, d) == [kind |-> "fin", num |-> n, den |-> d]

isNaN(x) == x.kind = "nan"

\* IEEE comparison x < y: false as soon as one side is NaN
NumLt(x, y) ==
  CASE x.kind = "nan" \/ y.kind = "nan" -> FALSE
    [] x.kind = "inf" /\ y.kind = "inf" -> x.sign < y.sign
    [] x.kind = "inf" /\ y.kind = "fin" -> x.sign < 0
    [] x.kind = "fin" /\ y.kind = "inf" -> y.sign > 0
    [] OTHER -> x.num * y.den < y.num * x.den

NumEq(x, y) ==
  CASE x.kind = "nan" \/ y.kind = "nan" -> FALSE
    [] x.kind = "inf" /\ y.kind = "inf" -> x.sign = y.sign
    [] x.kind = "inf" \/ y.kind = "inf" -> FALSE
    [] OTHER -> x.num * y.den = y.num * x.den

NumGt(x, y) == NumLt(y, x)
NumLe(x, y) == NumLt(x, y) \/ NumEq(x, y)
NumGe(x, y) == NumLt(y, x) \/ NumEq(x, y)

(***************************************************************************)
(* Text helpers                                                            *)
(***************************************************************************)
CharAt(s, p) == IF p >= 1 /\ p <= Len(s) THEN s[p] ELSE "<eof>"

RECURSIVE SkipWs(_, _)
SkipWs(s, p) == IF CharAt(s, p) \in WhiteSpace THEN SkipWs(s, p + 1) ELSE p

RECURSIVE SkipWsBack(_, _)
SkipWsBack(s, p) == IF CharAt(s, p) \in WhiteSpace THEN SkipWsBack(s, p - 1) ELSE p

RECURSIVE SkipDigits(_, _)
SkipDigits(s, p) == IF CharAt(s, p) \in Digits THEN SkipDigits(s, p + 1) ELSE p

\* the characters s[from .. to-1]
Slice(s, from, to) == SubSeq(s, from, to - 1)

\* String.prototype.trim
trim(s) ==
  LET a == SkipWs(s, 1)
      b == SkipWsBack(s, Len(s))
  IN  IF a > Len(s) THEN << >> ELSE SubSeq(s, a, b)

\* value of the digit string s[from .. to-1] (0 when empty)
RECURSIVE DigitsValue(_, _, _)
DigitsValue(s, from, to) ==
  IF to <= from THEN 0
  ELSE 10 * DigitsValue(s, from, to - 1) + DigitVal(s[to - 1])

StartsWithAt(s, p, w) ==
  /\ p + Len(w) - 1 <= Len(s)
  /\ \A i \in 1..Len(w) : s[p + i - 1] = w[i]

InfinityWord == <<"I", "n", "f", "i", "n", "i", "t", "y">>

\* the number mant / 10^fracLen, scaled by 10^expo or 10^-expo
MakeNumber(neg, mant, fracLen, eNeg, expo) ==
  Fin((IF neg THEN 0 - mant ELSE mant) * (IF eNeg THEN 1 ELSE Pow10(expo)),
      Pow10(fracLen) * (IF eNeg THEN Pow10(expo) ELSE 1))

\* the exponent's digits start at eFrom; without a digit the 'e' is not
\* part of the number
ParseExponentDigits(s, neg, mant, fracLen, eNeg, eFrom) ==
  IF SkipDigits(s, eFrom) > eFrom
  THEN MakeNumber(neg, mant, fracLen, eNeg,
                  DigitsValue(s, eFrom, SkipDigits(s, eFrom)))
  ELSE MakeNumber(neg, mant, fracLen, FALSE, 0)

\* the mantissa ended before mantEnd: an exponent part may follow
ParseExponent(s, neg, mant, fracLen, mantEnd) ==
  IF CharAt(s, mantEnd) \in {"e", "E"}
  THEN ParseExponentDigits(s, neg, mant, fracLen,
         CharAt(s, mantEnd + 1) = "-",
         IF CharAt(s, mantEnd + 1) \in {"-", "+"} THEN mantEnd + 2 ELSE mantEnd + 1)
  ELSE MakeNumber(neg, mant, fracLen, FALSE, 0)

\* digits s[p1 .. intEnd-1], a '.' at intEnd, digits up to fracEnd-1
ParseFraction(s, neg, p1, intEnd, fracEnd) ==
  IF intEnd = p1 /\ fracEnd = intEnd + 1 THEN NaN
  ELSE ParseExponent(s, neg,
         DigitsValue(s, p1, intEnd) * Pow10(fracEnd - intEnd - 1)
           + DigitsValue(s, intEnd + 1, fracEnd),
         fracEnd - intEnd - 1, fracEnd)

\* the integer digits are s[p1 .. intEnd-1]
ParseMantissa(s, neg, p1, intEnd) ==
  IF CharAt(s, intEnd) = "."
    THEN ParseFraction(s, neg, p1, intEnd, SkipDigits(s, intEnd + 1))
  ELSE IF intEnd = p1 THEN NaN
  ELSE ParseExponent(s, neg, DigitsValue(s, p1, intEnd), 0, intEnd)

\* the literal starts at p1, after the sign
ParseUnsigned(s, neg, p1) ==
  IF StartsWithAt(s, p1, InfinityWord) THEN (IF neg THEN NegInf ELSE PosInf)
  ELSE ParseMantissa(s, neg, p1, SkipDigits(s, p1))

\* the sign, if any, is at p0
ParseSigned(s, p0) ==
  ParseUnsigned(s, CharAt(s, p0) = "-",
                IF CharAt(s, p0) \in {"-", "+"} THEN p0 + 1 ELSE p0)

\* the global parseFloat: skip leading white space, then read the longest
\* prefix that is a StrDecimalLiteral ([+-] Infinity | digits [. digits]
\* [exponent] | . digits [exponent]); NaN when there is no such prefix
parseFloat(s) == ParseSigned(s, SkipWs(s, 1))

(***************************************************************************)
(* JavaScript values held by a row's cells: text, number, or undefined     *)
(* (the key is absent from the row)                                        *)
(***************************************************************************)
Undefined == [t |-> "undefined"]
StrV(s) == [t |-> "str", v |-> s]
NumV(n) == [t |-> "num", v |-> n]

\* ToBoolean: the empty text, 0, NaN and undefined are falsy
Truthy(x) ==
  CASE x.t = "undefined" -> FALSE
    [] x.t = "str" -> x.v # << >>
    [] x.t = "num" -> ~(x.v.kind = "nan" \/ (x.v.kind = "fin" /\ x.v.num = 0))

\* a || b
JsOr(a, b) == IF Truthy(a) THEN a ELSE b

RECURSIVE NatToText(_)
NatToText(n) ==
  IF n < 10 THEN <<DigitChar(n)>>
  ELSE NatToText(n \div 10) \o <<DigitChar(n % 10)>>

\* the decimal digits of r/den, 0 <= r < den, den a power of ten
RECURSIVE FracToText(_, _)
FracToText(r, den) ==
  IF r = 0 THEN << >>
  ELSE <<DigitChar((r * 10) \div den)>> \o FracToText((r * 10) % den, den)

\* Number::toString for the magnitudes of the model (no exponent form)
NumToText(x) ==
  CASE x.kind = "nan" -> <<"N", "a", "N">>
    [] x.kind = "inf" ->
         (IF x.sign < 0 THEN <<"-">> ELSE << >>) \o InfinityWord
    [] OTHER ->
         LET a  == IF x.num < 0 THEN -x.num ELSE x.num
             ip == a \div x.den
             fr == a % x.den
         IN  (IF x.num < 0 THEN <<"-">> ELSE << >>)
               \o NatToText(ip)
               \o (IF fr = 0 THEN << >> ELSE <<".">> \o FracToText(fr, x.den))

\* String(x) as findMatch applies it to a truthy cell or to ''
String(x) ==
  CASE x.t = "str" -> x.v
    [] x.t = "num" -> NumToText(x.v)
    [] OTHER -> <<"u", "n", "d", "e", "f", "i", "n", "e", "d">>

(***************************************************************************)
(* isValueInInterval                                                       *)
(***************************************************************************)
NoMatch == [ok |-> FALSE]

\* variant: a leading '+' is accepted as well as '-'
ScanNumber_plus(s, p) ==
  LET p1 == IF CharAt(s, p) \in {"-", "+"} THEN p + 1 ELSE p
      p2 == SkipDigits(s, p1)
      p3 == IF CharAt(s, p2) = "." THEN p2 + 1 ELSE p2
  IN  IF p2 = p1 THEN 0 ELSE SkipDigits(s, p3)

\* end of a number -?\d+\.?\d* that starts at p, or 0 when none starts there
ScanNumber(s, p) ==
  LET p1 == IF CharAt(s, p) = "-" THEN p + 1 ELSE p
      p2 == SkipDigits(s, p1)
      p3 == IF CharAt(s, p2) = "." THEN p2 + 1 ELSE p2
  IN  IF p2 = p1 THEN 0 ELSE SkipDigits(s, p3)

\* cleanStr.match(/^([(\[])\s*(-?\d+\.?\d*)\s*,\s*(-?\d+\.?\d*)\s*([)\]])$/)
\* The character classes that meet at each boundary of the pattern are
\* disjoint, so the left-to-right greedy scan finds the only possible match.
RegexMatch(s) ==
  LET n1From == SkipWs(s, 2)
      n1To   == ScanNumber(s, n1From)
      comma  == SkipWs(s, n1To)
      n2From == SkipWs(s, comma + 1)
      n2To   == ScanNumber(s, n2From)
      close  == SkipWs(s, n2To)
  IN  IF /\ CharAt(s, 1) \in {"(", "["}
         /\ n1To # 0
         /\ CharAt(s, comma) = ","
         /\ n2To # 0
         /\ CharAt(s, close) \in {")", "]"}
         /\ close = Len(s)
      THEN [ok |-> TRUE,
            startBracket |-> s[1],
            startValStr  |-> Slice(s, n1From, n1To),
            endValStr    |-> Slice(s, n2From, n2To),
            endBracket   |-> s[close]]
      ELSE NoMatch

\* variant: the typeof test is dropped
RejectsArgument_falsyOnly(x) == ~Truthy(x)

\* line 10: if (!intervalStr || typeof intervalStr !== 'string') return false
RejectsArgument(x) == ~Truthy(x) \/ x.t # "str"

\* variant: the null match is not tested
RejectsFormat_never(m) == FALSE

\* lines 20-23: if (!match) { console.warn(...); return false }
RejectsFormat(m) == ~m.ok

\* variant: '(' compared with >= like '['
LowerTest_closed(value, startBracket, startVal) ==
  IF startBracket \in {"(", "["} THEN NumGe(value, startVal) ELSE FALSE

\* lines 36-40
LowerTest(value, startBracket, startVal) ==
  IF startBracket = "(" THEN NumGt(value, startVal)
  ELSE IF startBracket = "[" THEN NumGe(value, startVal)
  ELSE FALSE

\* variant: ')' compared with <= like ']'
UpperTest_closed(value, endBracket, endVal) ==
  IF endBracket \in {")", "]"} THEN NumLe(value, endVal) ELSE FALSE

\* lines 43-47
UpperTest(value, endBracket, endVal) ==
  IF endBracket = ")" THEN NumLt(value, endVal)
  ELSE IF endBracket = "]" THEN NumLe(value, endVal)
  ELSE FALSE

\* stage names the statement that ended the call: "argument" (line 10),
\* "format" (line 22), "nan" (line 30), "tests" (line 49), "error" (a throw)
Returned(b, w, st) == [result |-> b, warned |-> w, threw |-> FALSE, stage |-> st]
Thrown == [result |-> FALSE, warned |-> FALSE, threw |-> TRUE, stage |-> "error"]

\* variant: the two bounds are put in order before the tests
OrderedTests(value, m, startVal, endVal) ==
  IF NumGt(startVal, endVal)
  THEN LowerTest(value, m.startBracket, endVal)
         /\ UpperTest(value, m.endBracket, startVal)
  ELSE LowerTest(value, m.startBracket, startVal)
         /\ UpperTest(value, m.endBracket, endVal)

isValueInInterval_reordered(value, intervalStr) ==
  IF RejectsArgument(intervalStr) THEN Returned(FALSE, FALSE, "argument")
  ELSE IF intervalStr.t # "str" THEN Thrown
  ELSE
    LET cleanStr == trim(intervalStr.v)
        match    == RegexMatch(cleanStr)
    IN  IF RejectsFormat(match) THEN Returned(FALSE, TRUE, "format")
        ELSE IF ~match.ok THEN Thrown
        ELSE
          LET startVal == parseFloat(match.startValStr)
              endVal   == parseFloat(match.endValStr)
          IN  IF isNaN(startVal) \/ isNaN(endVal)
                THEN Returned(FALSE, FALSE, "nan")
              ELSE Returned(OrderedTests(value, match, startVal, endVal),
                            FALSE, "tests")

\* The outcome of one call: the boolean returned, whether console.warn was
\* called, and whether the call ended in a TypeError instead of returning
\* (.trim() on a value that is not text, destructuring a null match).
isValueInInterval(value, intervalStr) ==
  IF RejectsArgument(intervalStr) THEN Returned(FALSE, FALSE, "argument")
  ELSE IF intervalStr.t # "str" THEN Thrown
  ELSE
    LET cleanStr == trim(intervalStr.v)
        match    == RegexMatch(cleanStr)
    IN  IF RejectsFormat(match) THEN Returned(FALSE, TRUE, "format")
        ELSE IF ~match.ok THEN Thrown
        ELSE
          LET startVal == parseFloat(match.startValStr)
              endVal   == parseFloat(match.endValStr)
          IN  IF isNaN(startVal) \/ isNaN(endVal)
                THEN Returned(FALSE, FALSE, "nan")
              ELSE Returned(LowerTest(value, match.startBracket, startVal)
                              /\ UpperTest(value, match.endBracket, endVal),
                            FALSE, "tests")

(***************************************************************************)
(* Rows and the row scan of findMatch                                      *)
(***************************************************************************)
UnderscoreKey(dim) ==
  CASE dim = "s5"  -> "s5_now_bin"
    [] dim = "s10" -> "s10_now_bin"
    [] dim = "s20" -> "s20_now_bin"

SpaceKey(dim) ==
  CASE dim = "s5"  -> "s5 now bin"
    [] dim = "s10" -> "s10 now bin"
    [] dim = "s20" -> "s20 now bin"

Dims == {"s5", "s10", "s20"}

\* row[key]: undefined when the row has no such key
Get(row, key) == IF key \in DOMAIN row THEN row[key] ELSE Undefined

\* variant: the space-named key is tried first
binOf_spaceFirst(row, dim) ==
  String(JsOr(JsOr(Get(row, SpaceKey(dim)), Get(row, UnderscoreKey(dim))),
              StrV(<< >>)))

\* variant: the space-named key is never tried
binOf_underscoreOnly(row, dim) ==
  String(JsOr(Get(row, UnderscoreKey(dim)), StrV(<< >>)))

\* String(row['s5_now_bin'] || row['s5 now bin'] || '')
binOf(row, dim) ==
  String(JsOr(JsOr(Get(row, UnderscoreKey(dim)), Get(row, SpaceKey(dim))),
              StrV(<< >>)))

\* a && b on the outcomes of two calls: b is looked at only when a returned
\* true; an error thrown by a call ends the whole test
AndThen(a, b) ==
  IF a.threw THEN Thrown
  ELSE IF ~a.result THEN a
  ELSE b

\* variant: the s20 bin is not tested
RowTest_twoDims(row, s5Val, s10Val, s20Val) ==
  AndThen(isValueInInterval(s5Val, StrV(binOf(row, "s5"))),
          isValueInInterval(s10Val, StrV(binOf(row, "s10"))))

\* isValueInInterval(s5Val, bin5) && isValueInInterval(s10Val, bin10) &&
\* isValueInInterval(s20Val, bin20), evaluated left to right
RowTest(row, s5Val, s10Val, s20Val) ==
  AndThen(isValueInInterval(s5Val, StrV(binOf(row, "s5"))),
          AndThen(isValueInInterval(s10Val, StrV(binOf(row, "s10"))),
                  isValueInInterval(s20Val, StrV(binOf(row, "s20")))))

NoneFound == [index |-> 0, threw |-> FALSE]
FoundAt(i) == [index |-> i, threw |-> FALSE]
ScanThrew == [index |-> 0, threw |-> TRUE]

\* variant: the last row whose test returns true is kept, not the first
RECURSIVE FindFrom_last(_, _, _, _, _)
KeepLast(t, rest, i) ==
  IF t.threw \/ rest.threw THEN ScanThrew
  ELSE IF rest.index # 0 THEN rest
  ELSE IF t.result THEN FoundAt(i)
  ELSE rest

FindFrom_last(rows, i, s5Val, s10Val, s20Val) ==
  IF i > Len(rows) THEN NoneFound
  ELSE KeepLast(RowTest(rows[i], s5Val, s10Val, s20Val),
                FindFrom_last(rows, i + 1, s5Val, s10Val, s20Val), i)

\* data.find(row => ...): the index of the first row whose test returns
\* true, 0 when there is none; an error thrown by a test ends the scan
RECURSIVE FindFrom(_, _, _, _, _)
FindStep(t, rows, i, s5Val, s10Val, s20Val) ==
  IF t.threw THEN ScanThrew
  ELSE IF t.result THEN FoundAt(i)
  ELSE FindFrom(rows, i + 1, s5Val, s10Val, s20Val)

FindFrom(rows, i, s5Val, s10Val, s20Val) ==
  IF i > Len(rows) THEN NoneFound
  ELSE FindStep(RowTest(rows[i], s5Val, s10Val, s20Val),
                rows, i, s5Val, s10Val, s20Val)

(***************************************************************************)
(* Bounds and the finite universe of inputs                                *)
(***************************************************************************)
\* interval bounds range over the quarters k/4, -MaxK <= k <= MaxK
MaxK == 4
\* a dataset has at most MaxRows rows
MaxRows == 2

Quarter(k) == Fin(25 * k, 100)
BoundValues == {Quarter(k) : k \in (0 - MaxK)..MaxK}
TestValues == {Quarter(k) : k \in (0 - MaxK - 1)..(MaxK + 1)} \cup {PosInf, NegInf}

\* white space placed around the six tokens of an interval text
PadNone  == [lead |-> << >>, a |-> << >>, b |-> << >>, c |-> << >>,
             d |-> << >>, trail |-> << >>]
PadComma == [lead |-> << >>, a |-> << >>, b |-> << >>, c |-> <<" ">>,
             d |-> << >>, trail |-> << >>]
PadAll   == [lead |-> <<" ">>, a |-> <<" ">>, b |-> <<"\t">>, c |-> <<" ">>,
             d |-> <<" ", " ">>, trail |-> <<"\t">>]
Pads == {PadNone, PadComma, PadAll}

Interval(o, lo, hi, c, pad) == [o |-> o, lo |-> lo, hi |-> hi, c |-> c, pad |-> pad]

Intervals ==
  {Interval(o, lo, hi, c, pad) :
     o \in {"(", "["}, lo \in BoundValues, hi \in BoundValues,
     c \in {")", "]"}, pad \in Pads}

\* the text that writes the interval iv
FormatInterval(iv) ==
  iv.pad.lead \o <<iv.o>> \o iv.pad.a \o NumToText(iv.lo) \o iv.pad.b
    \o <<",">> \o iv.pad.c \o NumToText(iv.hi) \o iv.pad.d \o <<iv.c>>
    \o iv.pad.trail

\* texts assembled from pieces that may each be wrong or missing
PreOpts   == {<< >>, <<" ">>}
OpenOpts  == {<<"(">>, <<"[">>, <<"{">>, << >>}
NumOpts   == {<<"1">>, <<"-", "1">>, <<"1", ".", "5">>, <<"+", "1">>,
              <<"1", ".">>, <<".", "5">>, << >>, <<"1", "e", "1">>,
              <<"-", " ", "1">>, <<"1", ".", "5", ".", "2">>}
SepOpts   == {<<",">>, <<" ", ",", " ">>, << >>, <<";">>}
CloseOpts == {<<")">>, <<"]">>, <<"}">>, << >>}
PostOpts  == {<< >>, <<" ">>, <<"x">>}

AssembledTexts ==
  {pre \o o \o n1 \o sep \o n2 \o c \o post :
     pre \in PreOpts, o \in OpenOpts, n1 \in NumOpts, sep \in SepOpts,
     n2 \in NumOpts, c \in CloseOpts, post \in PostOpts}

ExtraTexts == {<<"5", "-", "1", "0">>, <<"[", "5", ",", "1", "0">>,
               <<" ", "\t">>, <<"(", ")">>}

AnyValues == {Quarter(0), Quarter(4), Quarter(6)}

\* arguments that are not text (the row cell types other than text)
NonTextArgs == {Undefined, NumV(Quarter(0)), NumV(Quarter(20))}

\* rows: three bin fields under either spelling, and a statistic column
T(o, lo, hi, c, pad) == StrV(FormatInterval(Interval(o, Quarter(lo), Quarter(hi), c, pad)))
Malformed == StrV(<<"5", "-", "1", "0">>)

RowA == ("s5_now_bin"  :> T("(", 0, 4, "]", PadComma))
     @@ ("s10_now_bin" :> T("[", 2, 4, ")", PadNone))
     @@ ("s20_now_bin" :> T("(", 2, 4, "]", PadNone))
     @@ ("stat" :> NumV(Fin(1, 1)))

RowB == ("s5 now bin"  :> T("(", 0, 4, "]", PadComma))
     @@ ("s10 now bin" :> T("[", 2, 4, ")", PadNone))
     @@ ("s20 now bin" :> T("(", 2, 4, "]", PadNone))
     @@ ("stat" :> NumV(Fin(2, 1)))

RowC == ("s5_now_bin"  :> T("[", 4, 4, "]", PadNone))
     @@ ("s10_now_bin" :> T("[", 2, 4, "]", PadAll))
     @@ ("s20_now_bin" :> T("(", 0, 4, ")", PadNone))
     @@ ("stat" :> NumV(Fin(3, 1)))

RowD == ("s5_now_bin"  :> Malformed)
     @@ ("s20_now_bin" :> NumV(Fin(5, 1)))
     @@ ("stat" :> NumV(Fin(4, 1)))

RowE == ("s5_now_bin"  :> StrV(<< >>))
     @@ ("s5 now bin"  :> T("(", 0, 4, "]", PadComma))
     @@ ("s10_now_bin" :> NumV(Fin(0, 1)))
     @@ ("s10 now bin" :> T("[", 2, 4, ")", PadNone))
     @@ ("s20_now_bin" :> T("(", 2, 4, "]", PadNone))
     @@ ("s20 now bin" :> Malformed)
     @@ ("stat" :> NumV(Fin(5, 1)))

Rows == {RowA, RowB, RowC, RowD, RowE}

Datasets == UNION {[1..n -> Rows] : n \in 0..MaxRows}

\* raw texts typed into the three input boxes
InputTexts == {<< >>, <<"1">>, <<"0", ".", "5">>, <<"x">>, <<"1", "x">>}

FileNames == {"upload.xlsx"}

(***************************************************************************)
(* State                                                                   *)
(***************************************************************************)
VARIABLES
  version,       \* which revision of App.tsx is running: 1, 2 or 3
  data,          \* useState<ExcelRow[]>
  fileName,      \* useState<string | null>
  isAutoLoaded,  \* useState<boolean> (revisions 1 and 3)
  inputs,        \* useState<SearchInputs>
  matchResult,   \* useState<MatchResult | null>
  searchOutcome, \* how the last call of findMatch ended; "none" after any other handler
  call,          \* one call of isValueInInterval: its arguments and outcome
  isLoading,     \* useState<boolean> (revisions 1 and 3)
  loadError,     \* useState<string | null> (revision 3)
  debugInfo,     \* useState<string[]> (revision 3): one entry per candidate tried
  run,           \* the call of loadDefaultFile in progress: where it waits, its logs
  reading,       \* the files handed to a FileReader whose onload has not run yet
  loadOutcome    \* how the last step of a load ended; NoLoad after any other handler

loadVars == <<isLoading, loadError, debugInfo, run, reading, loadOutcome>>

vars == <<version, data, fileName, isAutoLoaded, inputs, matchResult,
          searchOutcome, call, isLoading, loadError, debugInfo, run, reading,
          loadOutcome>>

appVars == <<version, data, fileName, isAutoLoaded, inputs, matchResult,
             searchOutcome, isLoading, loadError, debugInfo, run, reading,
             loadOutcome>>

Null == [t |-> "null"]
Found(row) == [t |-> "result", found |-> TRUE, row |-> row]
NotFound == [t |-> "result", found |-> FALSE]

NoFile == "<null>"
IdleCall == [kind |-> "idle", done |-> FALSE]

\* loadError: null, or the message of line 598
NoError == "<null>"
LoadFailed == "cannot load the analysis file"

\* the async function loadDefaultFile: not called yet, not running, waiting
\* for fetch(url) of candidate i, or waiting for response.arrayBuffer()
Unmounted == [pc |-> "unmounted", i |-> 0, logs |-> << >>]
Idle == [pc |-> "idle", i |-> 0, logs |-> << >>]
Fetching(i, logs) == [pc |-> "fetch", i |-> i, logs |-> logs]
Downloading(i, logs) == [pc |-> "body", i |-> i, logs |-> logs]

\* the bytes of a file, by what the code asks of them: at least four bytes,
\* a ZIP or OLE header, and what XLSX.read makes of them
Unreadable == [t |-> "throws"]
NoSheets == [t |-> "nosheet"]
Sheet(rows) == [t |-> "sheet", rows |-> rows]
File(long, magic, book) == [long |-> long, magic |-> magic, book |-> book]
NoBytes == File(FALSE, FALSE, Unreadable)

NoLoad == [kind |-> "none", auto |-> FALSE, file |-> NoBytes]
LoadStep(kind, auto, file) == [kind |-> kind, auto |-> auto, file |-> file]

InitApp ==
  /\ version \in {1, 2, 3}
  /\ data = << >>
  /\ fileName = NoFile
  /\ isAutoLoaded = FALSE
  /\ inputs = [s5 |-> << >>, s10 |-> << >>, s20 |-> << >>]
  /\ matchResult = Null
  /\ searchOutcome = "none"
  /\ isLoading = FALSE
  /\ loadError = NoError
  /\ debugInfo = << >>
  /\ reading = {}
  /\ loadOutcome = NoLoad

\* the handlers of App on the state of construction; the automatic load of
\* the mount effect is left to SpecLoad
Init == InitApp /\ call = IdleCall /\ run = Idle

(***************************************************************************)
(* Handlers of App                                                         *)
(***************************************************************************)
handleDataLoaded(loadedData, name) ==
  /\ data' = loadedData
  /\ fileName' = name
  /\ isAutoLoaded' = FALSE
  /\ matchResult' = Null
  /\ loadError' = NoError
  /\ searchOutcome' = "none"
  /\ UNCHANGED <<version, inputs, call, isLoading, debugInfo, run>>

\* the prop onDataLoaded of FileUpload, called with rows already parsed
onDataLoaded(loadedData, name) ==
  /\ handleDataLoaded(loadedData, name)
  /\ loadOutcome' = NoLoad
  /\ UNCHANGED reading

\* variant: the three inputs are left as typed
handleClearFile_keepingInputs ==
  /\ data' = << >>
  /\ fileName' = NoFile
  /\ isAutoLoaded' = FALSE
  /\ matchResult' = Null
  /\ loadError' = NoError
  /\ searchOutcome' = "none"
  /\ loadOutcome' = NoLoad
  /\ UNCHANGED <<version, inputs, call, isLoading, debugInfo, run, reading>>

handleClearFile ==
  /\ data' = << >>
  /\ fileName' = NoFile
  /\ isAutoLoaded' = FALSE
  /\ matchResult' = Null
  /\ inputs' = [s5 |-> << >>, s10 |-> << >>, s20 |-> << >>]
  /\ loadError' = NoError
  /\ searchOutcome' = "none"
  /\ loadOutcome' = NoLoad
  /\ UNCHANGED <<version, call, isLoading, debugInfo, run, reading>>

handleInputChange(field, value) ==
  /\ inputs' = [inputs EXCEPT ![field] = value]
  /\ matchResult' = IF matchResult # Null THEN Null ELSE matchResult
  /\ searchOutcome' = "none"
  /\ loadOutcome' = NoLoad
  /\ UNCHANGED <<version, data, fileName, isAutoLoaded, call, isLoading,
                 loadError, debugInfo, run, reading>>

\* how findMatch ends, and the result it leaves in matchResult
Ended(kind, result) == [kind |-> kind, result |-> result]

\* variant: the result carries the three bin fields of the row only
BinFieldsOf(row) ==
  [k \in DOMAIN row \cap ({UnderscoreKey(d) : d \in Dims} \cup {SpaceKey(d) : d \in Dims})
     |-> row[k]]

ScanOutcome_binsOnly(scan) ==
  IF scan.threw THEN Ended("error", matchResult)
  ELSE IF scan.index # 0 THEN Ended("scanned", Found(BinFieldsOf(data[scan.index])))
  ELSE Ended("scanned", NotFound)

\* lines 641-653: the scan and setMatchResult
ScanOutcome(scan) ==
  IF scan.threw THEN Ended("error", matchResult)
  ELSE IF scan.index # 0 THEN Ended("scanned", Found(data[scan.index]))
  ELSE Ended("scanned", NotFound)

\* variant: a search made while a found result is shown reports not-found
ParsedOutcome_remembering(s5Val, s10Val, s20Val) ==
  IF isNaN(s5Val) \/ isNaN(s10Val) \/ isNaN(s20Val)
  THEN Ended("nan", matchResult)
  ELSE IF matchResult # Null /\ matchResult.found THEN Ended("scanned", NotFound)
  ELSE ScanOutcome(FindFrom(data, 1, s5Val, s10Val, s20Val))

\* lines 636-639: the isNaN test on the three parsed inputs
ParsedOutcome(s5Val, s10Val, s20Val) ==
  IF isNaN(s5Val) \/ isNaN(s10Val) \/ isNaN(s20Val)
  THEN Ended("nan", matchResult)
  ELSE ScanOutcome(FindFrom(data, 1, s5Val, s10Val, s20Val))

\* findMatch: "absent" is the silent return of line 630, "nodata" the
\* alert of the second revision (lines 277-280), "nan" the alert of lines
\* 636-639
findMatchOutcome ==
  IF inputs.s5 = << >> \/ inputs.s10 = << >> \/ inputs.s20 = << >>
    THEN Ended("absent", matchResult)
  ELSE IF version = 2 /\ Len(data) = 0
    THEN Ended("nodata", matchResult)
  ELSE ParsedOutcome(parseFloat(inputs.s5), parseFloat(inputs.s10),
                     parseFloat(inputs.s20))

\* line 656 (115, 316): what enables the submit button
isFormValid ==
  /\ inputs.s5 # << >>
  /\ inputs.s10 # << >>
  /\ inputs.s20 # << >>
  /\ Len(data) > 0

\* variant: the rows are put in reverse order while they are searched
RECURSIVE Reversed(_)
Reversed(rows) ==
  IF rows = << >> THEN << >> ELSE Append(Reversed(Tail(rows)), Head(rows))

findMatch_reversing ==
  /\ searchOutcome' = findMatchOutcome.kind
  /\ matchResult' = findMatchOutcome.result
  /\ data' = Reversed(data)
  /\ loadOutcome' = NoLoad
  /\ UNCHANGED <<version, fileName, isAutoLoaded, inputs, call, isLoading,
                 loadError, debugInfo, run, reading>>

findMatch ==
  /\ searchOutcome' = findMatchOutcome.kind
  /\ matchResult' = findMatchOutcome.result
  /\ loadOutcome' = NoLoad
  /\ UNCHANGED <<version, data, fileName, isAutoLoaded, inputs, call,
                 isLoading, loadError, debugInfo, run, reading>>

Next ==
  \/ \E d \in Datasets, n \in FileNames : onDataLoaded(d, n)
  \/ handleClearFile
  \/ \E f \in Dims, v \in InputTexts : handleInputChange(f, v)
  \/ findMatch

Spec == Init /\ [][Next]_vars

(***************************************************************************)
(* The automatic load (loadDefaultFile) and the manual upload (FileUpload) *)
(***************************************************************************)
Path(dir, file) == [dir |-> dir, file |-> file]

FILE_CANDIDATES ==
  << Path("/", "Slope_Combination_Analysis.xlsx"),
     Path("/", "slope_combination_analysis.xlsx"),
     Path("./", "Slope_Combination_Analysis.xlsx"),
     Path("./", "slope_combination_analysis.xlsx"),
     Path("", "Slope_Combination_Analysis.xlsx") >>

DEFAULT_FILE_PATH == Path("./", "data.xlsx")

\* filePath.replace(/^.*[\\/]/, ''): what follows the last slash
BaseName(path) == path.file

\* the paths loadDefaultFile requests: the list of revision 3, the single
\* path of revision 1
Candidates == IF version = 1 THEN << DEFAULT_FILE_PATH >> ELSE FILE_CANDIDATES
CurrentPath == Candidates[run.i]

\* the name given to parseExcelData
AutoName == IF version = 1 THEN "data.xlsx" ELSE BaseName(CurrentPath)

\* one candidate in the logs: its path and whether a line with the failure
\* mark was logged for it
Tried(path, failed) == [path |-> path, failed |-> failed]

\* XLSX.utils.sheet_to_json(workbook.Sheets[workbook.SheetNames[0]]): no
\* rows when the workbook has no sheet
SheetRows(book) == IF book.t = "sheet" THEN book.rows ELSE << >>

\* whether parseExcelData throws: revision 3 checks the length, the header,
\* the sheet names and the rows (lines 494-524) after XLSX.read; revision 1
\* and FileUpload only let XLSX.read throw
ParseThrows(file, checked) ==
  IF checked /\ ~file.long THEN TRUE
  ELSE IF checked /\ ~file.magic THEN TRUE
  ELSE IF file.book.t = "throws" THEN TRUE
  ELSE IF checked /\ file.book.t = "nosheet" THEN TRUE
  ELSE checked /\ SheetRows(file.book) = << >>

\* lines 545-561 (47-49): the state set before the first fetch is awaited
loadDefaultFile ==
  /\ isLoading' = TRUE
  /\ loadError' = NoError
  /\ debugInfo' = << >>
  /\ run' = Fetching(1, << >>)
  /\ searchOutcome' = "none"
  /\ loadOutcome' = NoLoad
  /\ UNCHANGED <<version, data, fileName, isAutoLoaded, inputs, matchResult,
                 reading, call>>

\* variant: a candidate that fails ends the loop
CandidateFailed_stopping(kind, file) ==
  /\ run' = Idle
  /\ isLoading' = FALSE
  /\ loadError' = IF version = 3 THEN LoadFailed ELSE loadError
  /\ debugInfo' = IF version = 3
                  THEN Append(run.logs, Tried(CurrentPath, TRUE))
                  ELSE debugInfo
  /\ loadOutcome' = LoadStep(kind, TRUE, file)
  /\ searchOutcome' = "none"
  /\ UNCHANGED <<version, data, fileName, isAutoLoaded, inputs, matchResult,
                 reading, call>>

\* variant: after the last candidate the loading flag is left set
CandidateFailed_spinning(kind, file) ==
  /\ IF version = 3 /\ run.i < Len(FILE_CANDIDATES)
     THEN /\ run' = Fetching(run.i + 1,
                             Append(run.logs, Tried(CurrentPath, TRUE)))
          /\ UNCHANGED <<isLoading, loadError, debugInfo>>
     ELSE /\ run' = Idle
          /\ isLoading' = isLoading
          /\ loadError' = IF version = 3 THEN LoadFailed ELSE loadError
          /\ debugInfo' = IF version = 3
                          THEN Append(run.logs, Tried(CurrentPath, TRUE))
                          ELSE debugInfo
  /\ loadOutcome' = LoadStep(kind, TRUE, file)
  /\ searchOutcome' = "none"
  /\ UNCHANGED <<version, data, fileName, isAutoLoaded, inputs, matchResult,
                 reading, call>>

\* a candidate ends without a dataset: the loop requests the next one, or
\* after the last one lines 597-599 run (revision 1: the finally of line 59)
CandidateFailed(kind, file) ==
  /\ IF version = 3 /\ run.i < Len(FILE_CANDIDATES)
     THEN /\ run' = Fetching(run.i + 1,
                             Append(run.logs, Tried(CurrentPath, TRUE)))
          /\ UNCHANGED <<isLoading, loadError, debugInfo>>
     ELSE /\ run' = Idle
          /\ isLoading' = FALSE
          /\ loadError' = IF version = 3 THEN LoadFailed ELSE loadError
          /\ debugInfo' = IF version = 3
                          THEN Append(run.logs, Tried(CurrentPath, TRUE))
                          ELSE debugInfo
  /\ loadOutcome' = LoadStep(kind, TRUE, file)
  /\ searchOutcome' = "none"
  /\ UNCHANGED <<version, data, fileName, isAutoLoaded, inputs, matchResult,
                 reading, call>>

\* variant: the result shown is kept when the file is loaded
CandidateLoaded_keeping(file) ==
  /\ data' = SheetRows(file.book)
  /\ fileName' = AutoName
  /\ isAutoLoaded' = TRUE
  /\ matchResult' = matchResult
  /\ loadError' = NoError
  /\ isLoading' = FALSE
  /\ debugInfo' = IF version = 3
                  THEN debugInfo \o Append(run.logs, Tried(CurrentPath, FALSE))
                  ELSE debugInfo
  /\ run' = Idle
  /\ loadOutcome' = LoadStep("loaded", TRUE, file)
  /\ searchOutcome' = "none"
  /\ UNCHANGED <<version, inputs, reading, call>>

\* parseExcelData(arrayBuffer, name, true) returns: lines 526-531 and
\* 580-584 (revision 1: lines 34-37 and 59)
CandidateLoaded(file) ==
  /\ data' = SheetRows(file.book)
  /\ fileName' = AutoName
  /\ isAutoLoaded' = TRUE
  /\ matchResult' = Null
  /\ loadError' = NoError
  /\ isLoading' = FALSE
  /\ debugInfo' = IF version = 3
                  THEN debugInfo \o Append(run.logs, Tried(CurrentPath, FALSE))
                  ELSE debugInfo
  /\ run' = Idle
  /\ loadOutcome' = LoadStep("loaded", TRUE, file)
  /\ searchOutcome' = "none"
  /\ UNCHANGED <<version, inputs, reading, call>>

\* await fetch(url) rejects: the catch of line 592 (56)
fetchRejects ==
  /\ run.pc = "fetch"
  /\ CandidateFailed("network", NoBytes)

\* response.ok is false: line 589 (53)
responseNotOk ==
  /\ run.pc = "fetch"
  /\ CandidateFailed("not-ok", NoBytes)

\* the content type holds text/html: the continue of line 570
responseHtml ==
  /\ run.pc = "fetch"
  /\ version = 3
  /\ CandidateFailed("html", NoBytes)

\* response.ok: response.arrayBuffer() is awaited, line 573 (51)
responseOk ==
  /\ run.pc = "fetch"
  /\ run' = Downloading(run.i, run.logs)
  /\ searchOutcome' = "none"
  /\ loadOutcome' = NoLoad
  /\ UNCHANGED <<version, data, fileName, isAutoLoaded, inputs, matchResult,
                 isLoading, loadError, debugInfo, reading, call>>

\* await response.arrayBuffer() rejects
bodyRejects ==
  /\ run.pc = "body"
  /\ CandidateFailed("network", NoBytes)

\* the bytes arrive and parseExcelData(arrayBuffer, name, true) is called
bodyArrives(file) ==
  /\ run.pc = "body"
  /\ IF ParseThrows(file, version = 3)
     THEN CandidateFailed("parse-error", file)
     ELSE CandidateLoaded(file)

\* FileUpload.handleFileChange: the file is handed to a FileReader
handleFileChange(upload) ==
  /\ reading' = reading \cup {upload}
  /\ searchOutcome' = "none"
  /\ loadOutcome' = NoLoad
  /\ UNCHANGED <<version, data, fileName, isAutoLoaded, inputs, matchResult,
                 isLoading, loadError, debugInfo, run, call>>

\* variant: a file that cannot be parsed empties the dataset
onload_clearing(upload) ==
  /\ upload \in reading
  /\ reading' = reading \ {upload}
  /\ IF ParseThrows(upload.file, FALSE)
     THEN /\ handleDataLoaded(<< >>, NoFile)
          /\ loadOutcome' = LoadStep("parse-error", FALSE, upload.file)
     ELSE /\ handleDataLoaded(SheetRows(upload.file.book), upload.name)
          /\ loadOutcome' = LoadStep("uploaded", FALSE, upload.file)

\* reader.onload: the catch of lines 30-33, or onDataLoaded(data, file.name)
onload(upload) ==
  /\ upload \in reading
  /\ reading' = reading \ {upload}
  /\ IF ParseThrows(upload.file, FALSE)
     THEN /\ loadOutcome' = LoadStep("parse-error", FALSE, upload.file)
          /\ searchOutcome' = "none"
          /\ UNCHANGED <<version, data, fileName, isAutoLoaded, inputs,
                         matchResult, isLoading, loadError, debugInfo, run,
                         call>>
     ELSE /\ handleDataLoaded(SheetRows(upload.file.book), upload.name)
          /\ loadOutcome' = LoadStep("uploaded", FALSE, upload.file)

\* what the page renders: the handlers below can be called only through an
\* element that is rendered (a disabled button and a style that ignores the
\* pointer do not remove the handler)
Mounted == run.pc # "unmounted"
FileInputShown == fileName = NoFile /\ (version = 2 \/ ~isLoading)
ClearShown == fileName # NoFile /\ (version = 2 \/ ~isLoading)
RetryShown == version = 3 /\ ~isLoading /\ loadError # NoError /\ data = << >>

\* useEffect(() => { loadDefaultFile() }, [])
useEffect ==
  /\ run.pc = "unmounted"
  /\ loadDefaultFile

\* the retry button, onClick={loadDefaultFile}
retry ==
  /\ Mounted
  /\ RetryShown
  /\ loadDefaultFile

\* the files a server answers with, and the files a user picks
GoodFile(rows) == File(TRUE, TRUE, Sheet(rows))
ServerFiles ==
  {File(FALSE, FALSE, Unreadable), File(TRUE, FALSE, Unreadable),
   File(TRUE, TRUE, Unreadable), File(TRUE, TRUE, NoSheets),
   GoodFile(<< >>), GoodFile(<<RowC>>)}

Upload(name, file) == [name |-> name, file |-> file]
UploadFiles ==
  {Upload("upload.xlsx", File(TRUE, TRUE, Unreadable)),
   Upload("upload.xlsx", GoodFile(<<RowA>>))}

LoadInputTexts == {<< >>, <<"1">>, <<"0", ".", "5">>}

InitLoad ==
  /\ InitApp
  /\ call = IdleCall
  /\ run = IF version = 2 THEN Idle ELSE Unmounted

Responds ==
  \/ fetchRejects
  \/ responseNotOk
  \/ responseHtml
  \/ responseOk
  \/ bodyRejects
  \/ \E f \in ServerFiles : bodyArrives(f)

NextLoad ==
  \/ useEffect
  \/ retry
  \/ Responds
  \/ \E u \in UploadFiles : Mounted /\ FileInputShown /\ handleFileChange(u)
  \/ \E u \in UploadFiles : onload(u)
  \/ Mounted /\ ClearShown /\ handleClearFile
  \/ \E f \in Dims, v \in LoadInputTexts : Mounted /\ handleInputChange(f, v)
  \/ Mounted /\ findMatch

SpecLoad == InitLoad /\ [][NextLoad]_vars

\* every fetch and every download is answered or fails, and the mount
\* effect runs
SpecLoadFair ==
  InitLoad /\ [][NextLoad]_vars /\ WF_vars(useEffect) /\ WF_vars(Responds)

(***************************************************************************)
(* The App driven with the two-row dataset and the inputs of the example   *)
(***************************************************************************)
ExampleRow1 == ("s5_now_bin"  :> StrV(<<"(", "-", "5", "0", ",", "-", "4", "5", "]">>))
            @@ ("s10_now_bin" :> StrV(<<"[", "0", ",", "5", ")">>))
            @@ ("s20_now_bin" :> StrV(<<"(", "1", "0", ",", "2", "0", "]">>))
            @@ ("stat" :> NumV(Fin(1, 1)))

ExampleRow2 == ("s5_now_bin"  :> StrV(<<"[", "-", "4", "5", ",", "-", "4", "0", ")">>))
            @@ ("s10_now_bin" :> StrV(<<"[", "0", ",", "5", ")">>))
            @@ ("s20_now_bin" :> StrV(<<"(", "1", "0", ",", "2", "0", "]">>))
            @@ ("stat" :> NumV(Fin(2, 1)))

ExampleData == <<ExampleRow1, ExampleRow2>>

Minus46 == <<"-", "4", "6">>
Minus44 == <<"-", "4", "4">>
Minus40 == <<"-", "4", "0">>
Two     == <<"2">>
Fifteen == <<"1", "5">>
ExampleTexts == {<< >>, Minus46, Minus44, Minus40, Two, Fifteen}

NextExample ==
  \/ \E n \in FileNames : onDataLoaded(ExampleData, n)
  \/ \E f \in Dims, v \in ExampleTexts : handleInputChange(f, v)
  \/ findMatch

SpecExample == Init /\ [][NextExample]_vars

(***************************************************************************)
(* One call of isValueInInterval on arguments drawn from the universe      *)
(***************************************************************************)
WellFormedCalls ==
  {[kind |-> "interval", value |-> v, iv |-> iv,
    arg |-> StrV(FormatInterval(iv)), done |-> FALSE] :
     v \in TestValues, iv \in Intervals}

TextCalls ==
  {[kind |-> "text", value |-> v, arg |-> StrV(s), done |-> FALSE] :
     v \in AnyValues, s \in AssembledTexts \cup ExtraTexts \cup {<< >>}}

NonTextCalls ==
  {[kind |-> "other", value |-> v, arg |-> x, done |-> FALSE] :
     v \in AnyValues, x \in NonTextArgs}

InitInterval ==
  /\ InitApp
  /\ run = Idle
  /\ version = 3
  /\ call \in WellFormedCalls \cup TextCalls \cup NonTextCalls

Evaluate ==
  /\ call.kind # "idle"
  /\ ~call.done
  /\ call' = [done |-> TRUE, out |-> isValueInInterval(call.value, call.arg)] @@ call
  /\ UNCHANGED appVars

NextInterval == Evaluate

SpecInterval == InitInterval /\ [][NextInterval]_vars

(***************************************************************************)
(* What the specification says, stated without the code's parser           *)
(***************************************************************************)
MinOf(S) == CHOOSE x \in S : \A y \in S : x <= y

\* v lies in the interval iv, by the meaning of its two brackets
ValueInside(v, iv) ==
  /\ \/ iv.o = "(" /\ NumGt(v, iv.lo)
     \/ iv.o = "[" /\ NumGe(v, iv.lo)
  /\ \/ iv.c = ")" /\ NumLt(v, iv.hi)
     \/ iv.c = "]" /\ NumLe(v, iv.hi)

IsWhite(q) == \A i \in 1..Len(q) : q[i] \in WhiteSpace
AllDigits(q) == \A i \in 1..Len(q) : q[i] \in Digits

\* [sign] digits ['.' digits*], the sign taken from signs
IsDecimal(q, signs) ==
  LET body == IF Len(q) >= 1 /\ q[1] \in signs THEN Tail(q) ELSE q
  IN  \E k \in 1..Len(body) :
        /\ AllDigits(SubSeq(body, 1, k))
        /\ \/ k = Len(body)
           \/ /\ body[k + 1] = "."
              /\ AllDigits(SubSeq(body, k + 2, Len(body)))

IsPaddedDecimal(q, signs) ==
  \E a \in 1..Len(q) : \E b \in a..Len(q) :
    /\ IsWhite(SubSeq(q, 1, a - 1))
    /\ IsWhite(SubSeq(q, b + 1, Len(q)))
    /\ IsDecimal(SubSeq(q, a, b), signs)

\* white space, bracket, padded decimal, ',', padded decimal, bracket,
\* white space, and nothing else
InGrammar(s, signs) ==
  \E i \in {p \in 1..Len(s) : s[p] \in {"(", "["} /\ IsWhite(SubSeq(s, 1, p - 1))} :
  \E k \in {p \in (i + 1)..Len(s) :
              s[p] \in {")", "]"} /\ IsWhite(SubSeq(s, p + 1, Len(s)))} :
  \E j \in {p \in (i + 1)..(k - 1) : s[p] = ","} :
    /\ IsPaddedDecimal(SubSeq(s, i + 1, j - 1), signs)
    /\ IsPaddedDecimal(SubSeq(s, j + 1, k - 1), signs)

AnySign == {"+", "-"}
MinusOnly == {"-"}

(***************************************************************************)
(* Claims about isValueInInterval (checked under SpecInterval)             *)
(***************************************************************************)
\* C1: for a well-formed interval text with brackets o, c and bounds lo, hi,
\* the call returns true exactly when v passes the lower test chosen by o
\* and the upper test chosen by c, each bracket deciding its own side.
C1_BracketSemantics ==
  (call.kind = "interval" /\ call.done) =>
    /\ call.out.stage = "tests"
    /\ call.out.result <=> ValueInside(call.value, call.iv)

\* a half-open interval with a negative decimal lower bound, called at its
\* closed lower end
C1_Witness ==
  /\ call.kind = "interval" /\ call.done
  /\ call.iv.o = "[" /\ call.iv.c = ")"
  /\ call.iv.lo = Quarter(-3) /\ call.iv.hi = Quarter(4)
  /\ call.value = Quarter(-3)
  /\ call.out.result

\* C2 as stated: a text is treated as well-formed (reaches the bound tests)
\* exactly when it is in the grammar whose numbers carry an optional sign;
\* every other text yields false.
C2_AsStated ==
  (call.kind = "text" /\ call.done) =>
    /\ (call.out.stage = "tests") <=> InGrammar(call.arg.v, AnySign)
    /\ ~InGrammar(call.arg.v, AnySign) => ~call.out.result

\* C2 amended: the same, the only sign accepted being '-' and the '.' being
\* followed by zero or more digits.
C2_Grammar ==
  (call.kind = "text" /\ call.done) =>
    /\ (call.out.stage = "tests") <=> InGrammar(call.arg.v, MinusOnly)
    /\ ~InGrammar(call.arg.v, MinusOnly) => ~call.out.result

\* a padded text with a negative bound and a bound ending in '.'
C2_Witness ==
  /\ call.kind = "text" /\ call.done
  /\ call.arg.v = <<" ", "[", "-", "1", " ", ",", " ", "1", ".", "]", " ">>
  /\ call.out.stage = "tests"

\* C9 as stated: every text outside the grammar yields false with a
\* diagnostic, and no call raises.
C9_AsStated ==
  call.done =>
    /\ ~call.out.threw
    /\ (call.arg.t = "str" /\ ~InGrammar(call.arg.v, MinusOnly)) =>
         (~call.out.result /\ call.out.warned)

\* C9 amended: every non-empty text outside the grammar yields false with a
\* diagnostic; the empty text yields false without one; no call raises,
\* whatever the value and the argument.
C9_Diagnostic ==
  call.done =>
    /\ ~call.out.threw
    /\ (call.arg.t = "str" /\ call.arg.v # << >>
          /\ ~InGrammar(call.arg.v, MinusOnly)) =>
         (~call.out.result /\ call.out.warned)
    /\ (call.arg.t # "str" \/ call.arg.v = << >>) =>
         (~call.out.result /\ ~call.out.warned)

\* the text 5-10 was refused with a diagnostic
C9_Witness ==
  /\ call.kind = "text" /\ call.done
  /\ call.arg.v = <<"5", "-", "1", "0">>
  /\ ~call.out.result /\ call.out.warned /\ ~call.out.threw

\* the interval with the two bounds exchanged
Exchanged(iv) == [iv EXCEPT !.lo = iv.hi, !.hi = iv.lo]

\* C15: for a well-formed interval text whose lower bound is greater than
\* its upper bound the call returns false for every value, with any of the
\* four bracket pairs: it reaches the two bound tests, which are applied to
\* the bounds as written, also for a value that lies between them.
C15_InvertedBounds ==
  (call.kind = "interval" /\ call.done /\ NumGt(call.iv.lo, call.iv.hi)) =>
    /\ call.out.stage = "tests"
    /\ ~call.out.warned
    /\ ~call.out.result

\* the text [1,0] called with 0.5, which lies between the two bounds
C15_Witness ==
  /\ call.kind = "interval" /\ call.done
  /\ call.iv.o = "[" /\ call.iv.c = "]"
  /\ call.iv.lo = Quarter(4) /\ call.iv.hi = Quarter(0)
  /\ call.value = Quarter(2)
  /\ ValueInside(call.value, Exchanged(call.iv))
  /\ ~call.out.result

(***************************************************************************)
(* Claims about findMatch (checked under Spec)                             *)
(***************************************************************************)
\* the interval that a text writes, for the texts of the universe
IntervalTexts == {<<FormatInterval(iv), iv>> : iv \in Intervals}
Denotation ==
  [t \in {p[1] : p \in IntervalTexts} |->
     (CHOOSE p \in IntervalTexts : p[1] = t)[2]]

\* the number that a decimal text writes, for the finite values of the universe
ValueTexts == {<<NumToText(v), v>> : v \in {x \in TestValues : x.kind = "fin"}}
ValueOf ==
  [t \in {p[1] : p \in ValueTexts} |->
     (CHOOSE p \in ValueTexts : p[1] = t)[2]]

IsNumericText(t) == t \in DOMAIN ValueOf

\* a cell that holds nothing usable: no key, the empty text, or the number 0
Blank(cell) ==
  \/ cell.t = "undefined"
  \/ cell.t = "str" /\ cell.v = << >>
  \/ cell.t = "num" /\ NumEq(cell.v, Fin(0, 1))

\* the cell tested for a dimension: the underscore-named one unless it is
\* blank, else the space-named one unless it is blank, else the empty text
TestedCell(row, dim) ==
  IF ~Blank(Get(row, UnderscoreKey(dim))) THEN Get(row, UnderscoreKey(dim))
  ELSE IF ~Blank(Get(row, SpaceKey(dim))) THEN Get(row, SpaceKey(dim))
  ELSE StrV(<< >>)

\* the cell tested if presence of the key alone decided
CellByPresence(row, dim) ==
  IF UnderscoreKey(dim) \in DOMAIN row THEN row[UnderscoreKey(dim)]
  ELSE IF SpaceKey(dim) \in DOMAIN row THEN row[SpaceKey(dim)]
  ELSE StrV(<< >>)

CellContains(v, cell) ==
  /\ cell.t = "str"
  /\ cell.v \in DOMAIN Denotation
  /\ ValueInside(v, Denotation[cell.v])

DimSatisfied(row, dim) ==
  CellContains(ValueOf[inputs[dim]], TestedCell(row, dim))

\* the indices of the rows of the dataset that satisfy all three dimensions
MatchingRows ==
  {i \in 1..Len(data) : \A dim \in Dims : DimSatisfied(data[i], dim)}

\* findMatch has just run with three inputs that are decimal numbers
SearchedWithNumbers ==
  /\ searchOutcome # "none"
  /\ \A dim \in Dims : IsNumericText(inputs[dim])

\* C3: findMatch returns found with row i exactly when i is the lowest index
\* whose three bins contain their own inputs; with several such rows the
\* earliest is returned.
C3_FirstMatch ==
  SearchedWithNumbers =>
    /\ MatchingRows # {} => matchResult = Found(data[MinOf(MatchingRows)])
    /\ (matchResult # Null /\ matchResult.found) =>
         (MatchingRows # {} /\ matchResult.row = data[MinOf(MatchingRows)])

\* two rows satisfy all three dimensions and the earlier one was returned
C3_Witness ==
  /\ SearchedWithNumbers
  /\ data = <<RowB, RowA>>
  /\ MatchingRows = {1, 2}
  /\ matchResult = Found(RowB)

\* C4 as stated: with valid numeric inputs findMatch reports not-found if
\* and only if no row satisfies all three predicates.
C4_AsStated ==
  SearchedWithNumbers => (matchResult = NotFound <=> MatchingRows = {})

\* C4 amended: the same whenever the dataset is scanned, that is except in
\* the revision that refuses an empty dataset, which then raises an alert
\* and stores no result.
C4_NotFound ==
  SearchedWithNumbers =>
    IF version = 2 /\ data = << >>
    THEN searchOutcome = "nodata" /\ matchResult = Null
    ELSE matchResult = NotFound <=> MatchingRows = {}

\* a row satisfying two of the three dimensions only, reported as not found
C4_Witness ==
  /\ SearchedWithNumbers
  /\ data = <<RowC>>
  /\ DimSatisfied(RowC, "s5") /\ DimSatisfied(RowC, "s10")
  /\ ~DimSatisfied(RowC, "s20")
  /\ matchResult = NotFound

\* C5 as stated: the text tested is the underscore-named key's value
\* whenever that key is present, the space-named key's value only when the
\* underscore-named key is absent, the empty text only when both are absent.
C5_AsStated ==
  searchOutcome = "scanned" =>
    \A i \in 1..Len(data) : \A dim \in Dims :
      binOf(data[i], dim) = String(CellByPresence(data[i], dim))

\* C5 amended: the underscore-named key's value is tested unless it is
\* blank (absent, empty text or 0); then the space-named key's value unless
\* that is blank too; then the empty text.
C5_Resolution ==
  searchOutcome = "scanned" =>
    \A i \in 1..Len(data) : \A dim \in Dims :
      binOf(data[i], dim) = String(TestedCell(data[i], dim))

\* a row without any s10 key, then a row carrying both spellings: its s20
\* bin came from the underscore-named key, its s5 bin from the space-named
\* key because the underscore-named one is empty
C5_Witness ==
  /\ searchOutcome = "scanned"
  /\ data = <<RowD, RowE>>
  /\ binOf(data[2], "s20") = RowE["s20_now_bin"].v
  /\ binOf(data[2], "s5") = RowE["s5 now bin"].v
  /\ binOf(data[1], "s10") = << >>
  /\ matchResult = Found(RowE)

\* the dimensions of a row written with the underscore spelling only
Renamable(row) ==
  {dim \in Dims : UnderscoreKey(dim) \in DOMAIN row /\ SpaceKey(dim) \notin DOMAIN row}

\* the row with those bin keys renamed to the space spelling
Renamed(row) ==
  LET moved == Renamable(row)
      keys  == (DOMAIN row \ {UnderscoreKey(dim) : dim \in moved})
                 \cup {SpaceKey(dim) : dim \in moved}
  IN  [k \in keys |->
         IF \E dim \in moved : k = SpaceKey(dim)
         THEN row[UnderscoreKey(CHOOSE dim \in moved : k = SpaceKey(dim))]
         ELSE row[k]]

\* the datasets got by renaming the bin keys in any set of rows
RenamedDatasets ==
  {[i \in 1..Len(data) |-> IF i \in R THEN Renamed(data[i]) ELSE data[i]] :
     R \in SUBSET (1..Len(data))}

\* C6: renaming, in any rows, the underscore-named bin keys to the
\* space-named keys with the same values leaves the outcome of findMatch
\* unchanged: the same row index is found, or not-found in both cases.
C6_RenameInvariant ==
  searchOutcome = "scanned" =>
    \A d \in RenamedDatasets :
      LET r == FindFrom(d, 1, parseFloat(inputs.s5), parseFloat(inputs.s10),
                        parseFloat(inputs.s20))
      IN  /\ ~r.threw
          /\ matchResult = IF r.index # 0 THEN Found(data[r.index]) ELSE NotFound

\* a row found through its underscore-named keys, which renaming changes
C6_Witness ==
  /\ searchOutcome = "scanned"
  /\ data = <<RowD, RowA>>
  /\ Renamed(RowA) # RowA
  /\ matchResult = Found(RowA)

\* C7: the dataset is scanned only when each of the three raw inputs is a
\* decimal number of the grammar used for interval bounds.
C7_AsStated ==
  searchOutcome = "scanned" =>
    \A dim \in Dims : IsDecimal(inputs[dim], MinusOnly)

\* C8: a search with an absent or non-numeric input sets no result and
\* leaves matchResult, data, inputs and fileName as they were.
C8_AsStated ==
  [][(searchOutcome' # "none"
        /\ \E dim \in Dims : ~IsDecimal(inputs[dim], MinusOnly))
      => (matchResult' = matchResult /\ data' = data /\ inputs' = inputs
            /\ fileName' = fileName)]_vars

\* C11: whenever findMatch reports found, the row carried is a row of the
\* dataset searched, with all its fields (the bin fields and the auxiliary
\* columns) as they are in the dataset; whenever it reports not-found, the
\* result carries no row.
C11_CarriesRow ==
  searchOutcome = "scanned" =>
    /\ matchResult # Null
    /\ matchResult.found =>
         /\ DOMAIN matchResult = {"t", "found", "row"}
         /\ \E i \in 1..Len(data) :
              /\ DOMAIN matchResult.row = DOMAIN data[i]
              /\ \A k \in DOMAIN data[i] : matchResult.row[k] = data[i][k]
    /\ ~matchResult.found => DOMAIN matchResult = {"t", "found"}

\* the row found carries both spellings of its bin fields and its statistic
C11_Witness ==
  /\ searchOutcome = "scanned"
  /\ data = <<RowD, RowE>>
  /\ matchResult.found
  /\ matchResult.row["stat"] = NumV(Fin(5, 1))
  /\ "s5 now bin" \in DOMAIN matchResult.row

\* C12: a call of findMatch that follows a call of findMatch, the dataset
\* and the three inputs being the same, ends the same way and leaves the
\* same result: nothing kept from the earlier call influences it.
C12_Idempotent ==
  [][(searchOutcome # "none" /\ searchOutcome' # "none"
        /\ data' = data /\ inputs' = inputs)
      => (matchResult' = matchResult /\ searchOutcome' = searchOutcome)]_vars

\* a search that found a row, from which findMatch can be called again
C12_Witness ==
  /\ searchOutcome = "scanned"
  /\ data = <<RowC, RowA>>
  /\ matchResult = Found(RowA)
  /\ findMatchOutcome.result = matchResult

\* C13: a call of findMatch, whether it ends in found, not-found or a
\* rejection, leaves the rows of the dataset, their order and their fields,
\* the three inputs and the file name as they were; only matchResult may
\* change.
C13_SearchFrame ==
  [][searchOutcome' # "none"
      => (data' = data /\ inputs' = inputs /\ fileName' = fileName
            /\ isAutoLoaded' = isAutoLoaded /\ version' = version)]_vars

\* a search of a two-row dataset that found its second row
C13_Witness ==
  /\ searchOutcome = "scanned"
  /\ data = <<RowD, RowA>>
  /\ matchResult = Found(RowA)
  /\ fileName = "upload.xlsx"

\* C14: on the two-row dataset of the example with s10 = 2 and s20 = 15,
\* s5 = -46 returns row 1, s5 = -44 returns row 2 and s5 = -40 returns
\* not-found.
C14_Example ==
  (searchOutcome # "none" /\ data = ExampleData
     /\ inputs.s10 = Two /\ inputs.s20 = Fifteen) =>
    /\ inputs.s5 = Minus46 => matchResult = Found(ExampleRow1)
    /\ inputs.s5 = Minus44 => matchResult = Found(ExampleRow2)
    /\ inputs.s5 = Minus40 => matchResult = NotFound

\* the search with s5 = -40, at the open upper end of row 2
C14_Witness ==
  /\ searchOutcome = "scanned"
  /\ data = ExampleData
  /\ inputs = [s5 |-> Minus40, s10 |-> Two, s20 |-> Fifteen]
  /\ matchResult = NotFound

\* a row with a bin field that is missing, or is not an interval text
Defective(row) ==
  \E dim \in Dims :
    ~(TestedCell(row, dim).t = "str" /\ TestedCell(row, dim).v \in DOMAIN Denotation)

\* C10: a row with a malformed or absent bin field is not a match and does
\* not end the scan: a later row that satisfies all three predicates is
\* still returned, and no search ends in an error.
C10_ScanContinues ==
  /\ searchOutcome # "error"
  /\ SearchedWithNumbers =>
       \A j \in MatchingRows :
         (j = MinOf(MatchingRows) /\ \E i \in 1..(j - 1) : Defective(data[i]))
           => matchResult = Found(data[j])

\* the malformed row came first and the row after it was returned
C10_Witness ==
  /\ SearchedWithNumbers
  /\ data = <<RowD, RowB>>
  /\ Defective(RowD)
  /\ matchResult = Found(RowB)

(***************************************************************************)
(* Claims about loading (checked under SpecLoad and SpecLoadFair)          *)
(***************************************************************************)
\* C16: in every state reached by loads (manual or automatic), clears,
\* input edits and searches, a matchResult that is not null is the result
\* of searching the current dataset with the current three inputs, and a
\* found row is a row of the current dataset.
C16_NeverStale ==
  matchResult # Null =>
    /\ findMatchOutcome.kind = "scanned"
    /\ matchResult = findMatchOutcome.result
    /\ matchResult.found => \E i \in 1..Len(data) : matchResult.row = data[i]

\* a row found in a dataset that the automatic load installed
C16_Witness ==
  /\ isAutoLoaded
  /\ data = <<RowC>>
  /\ matchResult = Found(RowC)
  /\ ~isLoading

\* C17: while a default-file load is in flight and a manually uploaded
\* dataset is installed, no step of that load replaces data or fileName or
\* sets isAutoLoaded.
C17_AsStated ==
  [][(version \in {1, 3} /\ isLoading /\ fileName \in FileNames
        /\ ~isAutoLoaded /\ loadOutcome'.auto)
      => (data' = data /\ fileName' = fileName /\ ~isAutoLoaded')]_vars

\* a run of loadDefaultFile has just ended
LoadEnded == ~isLoading /\ loadOutcome.auto

\* a candidate was fetched and parsed, a dataset with rows is loaded and no
\* error is recorded; or no candidate succeeded and an error is recorded
LoadedOrFailed ==
  \/ /\ loadOutcome.kind = "loaded"
     /\ loadError = NoError
     /\ data # << >>
  \/ /\ loadOutcome.kind # "loaded"
     /\ loadError # NoError

\* C18 as stated: when a run of loadDefaultFile ends, exactly one of the
\* two outcomes above holds.
C18_AsStated == LoadEnded => LoadedOrFailed

\* the end of a run in the revision with a single path: the rows of the
\* file are loaded, possibly none, or nothing is loaded; no error is
\* recorded in either case
LoadedOrSilent ==
  /\ loadError = NoError
  /\ loadOutcome.kind = "loaded" =>
       (data = SheetRows(loadOutcome.file.book) /\ isAutoLoaded)

\* C18 amended: every run of loadDefaultFile, each fetch being answered or
\* failing, ends with isLoading = false; at that moment the revision with
\* the candidate list is in exactly one of the two outcomes above, and the
\* revision with the single path has either loaded the rows of the file
\* (possibly none) or loaded nothing, with no error recorded.
C18_Terminates ==
  /\ isLoading ~> ~isLoading
  /\ [](LoadEnded => IF version = 3 THEN LoadedOrFailed ELSE LoadedOrSilent)

\* a run of the candidate list that ended with no candidate loaded
C18_Witness ==
  /\ version = 3
  /\ LoadEnded
  /\ loadOutcome.kind = "network"
  /\ loadError = LoadFailed
  /\ data = << >>

\* the logs of k candidates tried in list order, all failed
FailedUpTo(k) == [j \in 1..k |-> Tried(FILE_CANDIDATES[j], TRUE)]

\* C19: the candidates are requested in list order, one at a time, each
\* after all the earlier ones failed; the dataset loaded is that of the
\* first candidate that is answered with a file that parses, and the run
\* ends there; a candidate that fails is followed by the request of the
\* next one, the run ending in failure only after all of them failed.
C19_CandidateOrder ==
  version = 3 =>
    /\ run.pc \in {"fetch", "body"} =>
         /\ run.i \in 1..Len(FILE_CANDIDATES)
         /\ run.logs = FailedUpTo(run.i - 1)
    /\ (loadOutcome.auto /\ loadOutcome.kind = "loaded") =>
         /\ run = Idle /\ ~isLoading
         /\ \E i \in 1..Len(FILE_CANDIDATES) :
              /\ debugInfo = Append(FailedUpTo(i - 1),
                                    Tried(FILE_CANDIDATES[i], FALSE))
              /\ fileName = BaseName(FILE_CANDIDATES[i])
         /\ data = SheetRows(loadOutcome.file.book)
         /\ data # << >>
    /\ (loadOutcome.auto /\ loadOutcome.kind # "loaded") =>
         IF run = Idle
         THEN debugInfo = FailedUpTo(Len(FILE_CANDIDATES)) /\ loadError = LoadFailed
         ELSE run.pc = "fetch" /\ run.i > 1

\* the third candidate was loaded after the first two failed
C19_Witness ==
  /\ version = 3
  /\ loadOutcome.kind = "loaded"
  /\ Len(debugInfo) = 3
  /\ fileName = "Slope_Combination_Analysis.xlsx"
  /\ data = <<RowC>>

\* C20: a step in which a file fails to parse, in the automatic load or in
\* the manual upload, leaves data, fileName, isAutoLoaded and matchResult
\* as they were; and the automatic load of the revision that checks the
\* file loads no file that is short, has a wrong header, has no sheet or
\* has no rows.
C20_ParseFailure ==
  /\ [][loadOutcome'.kind = "parse-error"
         => (data' = data /\ fileName' = fileName
               /\ isAutoLoaded' = isAutoLoaded /\ matchResult' = matchResult)]_vars
  /\ []((version = 3 /\ loadOutcome.auto /\ loadOutcome.kind = "loaded") =>
          /\ loadOutcome.file.long /\ loadOutcome.file.magic
          /\ loadOutcome.file.book.t = "sheet"
          /\ loadOutcome.file.book.rows # << >>)

\* an uploaded file failed to parse while an uploaded dataset was in use
C20_Witness ==
  /\ loadOutcome.kind = "parse-error"
  /\ ~loadOutcome.auto
  /\ data = <<RowA>>
  /\ fileName = "upload.xlsx"

NoInputs == [s5 |-> << >>, s10 |-> << >>, s20 |-> << >>]

\* no dataset with rows has been loaded, or an input has not been entered
StillCleared == data = << >> \/ \E dim \in Dims : inputs[dim] = << >>

\* C21: the step that removes the file (handleClearFile, the only handler
\* that sets fileName to null) leaves the dataset empty, the three inputs
\* empty and matchResult null; and as long as no dataset with rows is
\* loaded or an input is not entered, isFormValid is false, no found result
\* is shown and no search stores one.
C21_AfterClear ==
  /\ [][(fileName # NoFile /\ fileName' = NoFile)
         => (data' = << >> /\ inputs' = NoInputs /\ matchResult' = Null)]_vars
  /\ [](StillCleared =>
          (~isFormValid /\ ~(matchResult # Null /\ matchResult.found)))
  /\ [][(StillCleared /\ searchOutcome' # "none")
         => ~(matchResult' # Null /\ matchResult'.found)]_vars

\* the automatically loaded file was removed, two inputs were typed again
\* and a search was refused for the third
C21_Witness ==
  /\ version = 3
  /\ debugInfo # << >>
  /\ loadError = NoError
  /\ fileName = NoFile
  /\ data = << >>
  /\ inputs = [s5 |-> <<"1">>, s10 |-> <<"0", ".", "5">>, s20 |-> << >>]
  /\ searchOutcome = "absent"
  /\ matchResult = Null

====
